---- MODULE Spec2Model ----
(***************************************************************************)
(* Chat Session Controller of the Next.js chat page (app/page.tsx).  The   *)
(* React component state is the model state; every UI callback is one      *)
(* atomic action (React runs a handler to completion and re-renders before *)
(* the next event is dispatched, so a handler reads the current state).    *)
(* The continuation of submitPrompt after its await is a separate action,  *)
(* Settle, that fires when the network call completes or fails.            *)
(*                                                                         *)
(* A text is a sequence of one-character strings, so that trim() and       *)
(* JSON.stringify() are computed character by character.                   *)
(***************************************************************************)
EXTENDS Integers, Sequences, FiniteSets, TLC

VARIABLES
  messages,              \* useState<Message[]>          page.tsx:78
  input,                 \* useState('')                 page.tsx:79
  isLoading,             \* useState(false)              page.tsx:80
  error,                 \* useState('')                 page.tsx:81
  highlightedSuggestion, \* useState<string | null>      page.tsx:82
  attachedFiles,         \* useState<File[]>             page.tsx:83
  activeHistoryId,       \* useState(HISTORY_SESSIONS[0]?.id)  page.tsx:84
  requests,              \* fetch() calls that have not settled yet
  env,                   \* process.env, read when the module loads  page.tsx:56
  plain,                 \* the state of the page without attachments  part_001:35-45
  last                   \* the event that produced the current state

vars ==
  <<messages, input, isLoading, error, highlightedSuggestion, attachedFiles,
    activeHistoryId, requests, env, plain, last>>

(***************************************************************************)
(* Bounds of the model: submitPrompt is taken past its guard only while    *)
(* the transcript holds fewer than MaxMessages messages, and at most       *)
(* MaxFiles files are staged.                                              *)
(***************************************************************************)
MaxMessages ==
  3

MaxFiles ==
  1

(***************************************************************************)
(* String literals of the page.  The controller never looks inside one of  *)
(* them, so each is cut after its first words: what the model keeps is     *)
(* that they are distinct, non-empty and free of surrounding white space.  *)
(***************************************************************************)
WELCOME_MESSAGE ==
  <<"H", "i", " ", "t", "h", "e", "r", "e", "!">>

APOLOGY_MESSAGE ==
  <<"I", " ", "c", "o", "u", "l", "d", " ", "n", "o", "t">>

BACKEND_ERROR_FALLBACK ==
  <<"B", "a", "c", "k", "e", "n", "d", " ", "r", "e", "s", "p", "o", "n", "d", "e", "d">>

UNREACHABLE_FALLBACK ==
  <<"U", "n", "a", "b", "l", "e", " ", "t", "o", " ", "r", "e", "a", "c", "h">>

PROMPT_SUGGESTIONS ==
  << <<"E", "x", "p", "l", "a", "i", "n", " ", "h", "o", "w">>,
     <<"S", "h", "o", "w", " ", "m", "e">>,
     <<"W", "h", "a", "t", " ", "s", "h", "o", "u", "l", "d">> >>

HISTORY_SESSIONS ==
  <<"deployment", "interface", "backend">>

(***************************************************************************)
(* Texts.                                                                  *)
(***************************************************************************)
EmptyText ==
  << >>

\* The white space String.prototype.trim() strips (the characters of it the
\* model's inputs use).
IsWhiteSpace(c) ==
  c \in {" ", "\t", "\n"}

RECURSIVE TrimStart(_)
TrimStart(s) ==
  IF s # << >> /\ IsWhiteSpace(Head(s)) THEN TrimStart(Tail(s)) ELSE s

RECURSIVE TrimEnd(_)
TrimEnd(s) ==
  IF s # << >> /\ IsWhiteSpace(s[Len(s)])
    THEN TrimEnd(SubSeq(s, 1, Len(s) - 1))
    ELSE s

\* String.prototype.trim()
Trim(s) ==
  TrimEnd(TrimStart(s))

(***************************************************************************)
(* JavaScript values as response.json() yields them.  A value is a record   *)
(* [kind, text, members]: text holds the characters of a string and the    *)
(* literal of a number or a boolean; members holds the [key, value]        *)
(* entries of an object, in order, and the elements of an array.           *)
(***************************************************************************)
Undefined ==
  [kind |-> "undefined", text |-> << >>, members |-> << >>]

JsNull ==
  [kind |-> "null", text |-> <<"n", "u", "l", "l">>, members |-> << >>]

JsString(t) ==
  [kind |-> "string", text |-> t, members |-> << >>]

JsNumber(t) ==
  [kind |-> "number", text |-> t, members |-> << >>]

JsBoolean(t) ==
  [kind |-> "boolean", text |-> t, members |-> << >>]

JsObject(ms) ==
  [kind |-> "object", text |-> << >>, members |-> ms]

JsArray(vs) ==
  [kind |-> "array", text |-> << >>,
   members |-> [i \in 1..Len(vs) |-> [key |-> << >>, value |-> vs[i]]]]

\* v == null || v === undefined
IsNullish(v) ==
  v.kind \in {"null", "undefined"}

\* payload.key, for a payload that is not nullish: the value of the own
\* property, undefined when the payload has none of that name.
GetProperty(payload, key) ==
  IF payload.kind = "object"
       /\ \E i \in 1..Len(payload.members) : payload.members[i].key = key
    THEN LET i == CHOOSE j \in 1..Len(payload.members) :
                    /\ payload.members[j].key = key
                    /\ \A k \in (j + 1)..Len(payload.members) :
                          payload.members[k].key # key
         IN  payload.members[i].value
    ELSE Undefined

\* a ?? b
Coalesce(a, b) ==
  IF IsNullish(a) THEN b ELSE a

Quote(t) ==
  <<"\"">> \o t \o <<"\"">>

\* JSON.stringify(v) for a value that came out of JSON.parse.  The texts of
\* the model hold no character that JSON escapes.
RECURSIVE JSONStringify(_)
RECURSIVE StringifyMembers(_, _)
StringifyMembers(ms, withKeys) ==
  IF ms = << >> THEN << >>
  ELSE (IF withKeys THEN Quote(Head(ms).key) \o <<":">> ELSE << >>)
       \o JSONStringify(Head(ms).value)
       \o (IF Len(ms) > 1 THEN <<",">> ELSE << >>)
       \o StringifyMembers(Tail(ms), withKeys)

JSONStringify(v) ==
  CASE v.kind = "string" -> Quote(v.text)
    [] v.kind = "object" -> <<"{">> \o StringifyMembers(v.members, TRUE) \o <<"}">>
    [] v.kind = "array"  -> <<"[">> \o StringifyMembers(v.members, FALSE) \o <<"]">>
    [] OTHER             -> v.text

\* The five reply fields, in the order submitPrompt probes them.
REPLY_FIELDS ==
  << <<"r", "e", "p", "l", "y">>,
     <<"a", "n", "s", "w", "e", "r">>,
     <<"o", "u", "t", "p", "u", "t">>,
     <<"r", "e", "s", "p", "o", "n", "s", "e">>,
     <<"m", "e", "s", "s", "a", "g", "e">> >>

\* Mutant of assistantContent: message probed before answer.
assistantContentMessageFirst(payload) ==
  Coalesce(GetProperty(payload, REPLY_FIELDS[1]),
  Coalesce(GetProperty(payload, REPLY_FIELDS[5]),
  Coalesce(GetProperty(payload, REPLY_FIELDS[2]),
  Coalesce(GetProperty(payload, REPLY_FIELDS[3]),
  Coalesce(GetProperty(payload, REPLY_FIELDS[4]),
           JsString(JSONStringify(payload)))))))

\* payload.reply ?? payload.answer ?? payload.output ?? payload.response
\*   ?? payload.message ?? JSON.stringify(payload)
assistantContent(payload) ==
  Coalesce(GetProperty(payload, REPLY_FIELDS[1]),
  Coalesce(GetProperty(payload, REPLY_FIELDS[2]),
  Coalesce(GetProperty(payload, REPLY_FIELDS[3]),
  Coalesce(GetProperty(payload, REPLY_FIELDS[4]),
  Coalesce(GetProperty(payload, REPLY_FIELDS[5]),
           JsString(JSONStringify(payload)))))))

(***************************************************************************)
(* The network.  An outcome is what one fetch() call ends with: the call   *)
(* rejects with a reason (no response obtained), or resolves with a        *)
(* response whose status is 2xx (ok) or not, whose body text response      *)
(* .text() yields, and whose body response.json() parses to a value or     *)
(* rejects as not being JSON.                                              *)
(***************************************************************************)
NotThrown ==
  [thrown |-> FALSE, isError |-> FALSE, message |-> << >>]

\* throw new Error(message), and the errors the platform throws
ErrorObject(message) ==
  [thrown |-> TRUE, isError |-> TRUE, message |-> message]

\* a rejection whose reason is not an Error instance
NonErrorValue ==
  [thrown |-> TRUE, isError |-> FALSE, message |-> << >>]

\* TypeError of a fetch() that obtained no response
FETCH_FAILED_MESSAGE ==
  <<"F", "a", "i", "l", "e", "d", " ", "t", "o", " ", "f", "e", "t", "c", "h">>

\* SyntaxError of response.json() on a body that is not JSON
JSON_SYNTAX_MESSAGE ==
  <<"U", "n", "e", "x", "p", "e", "c", "t", "e", "d", " ", "t", "o", "k", "e", "n">>

\* TypeError of reading a property of null
NULL_PROPERTY_MESSAGE ==
  <<"C", "a", "n", "n", "o", "t", " ", "r", "e", "a", "d", " ", "p", "r", "o", "p",
    "e", "r", "t", "i", "e", "s", " ", "o", "f", " ", "n", "u", "l", "l">>

NoOutcome ==
  [kind |-> "none", ok |-> FALSE, reason |-> NotThrown, text |-> << >>,
   jsonValid |-> FALSE, json |-> Undefined]

NetworkFailure(reason) ==
  [kind |-> "rejected", ok |-> FALSE, reason |-> reason, text |-> << >>,
   jsonValid |-> FALSE, json |-> Undefined]

HttpErrorResponse(text) ==
  [kind |-> "response", ok |-> FALSE, reason |-> NotThrown, text |-> text,
   jsonValid |-> FALSE, json |-> Undefined]

UnparsableResponse ==
  [kind |-> "response", ok |-> TRUE, reason |-> NotThrown, text |-> << >>,
   jsonValid |-> FALSE, json |-> Undefined]

JsonResponse(payload) ==
  [kind |-> "response", ok |-> TRUE, reason |-> NotThrown, text |-> << >>,
   jsonValid |-> TRUE, json |-> payload]

Hello ==
  <<"H", "e", "l", "l", "o">>

\* What the user can have typed into the textarea.
Inputs ==
  { EmptyText, <<" ", "\t">>, <<" ">> \o Hello \o <<"\n">> }

\* The files the picker offers, and the selections of one change event.
Files ==
  {"a.png", "b.pdf"}

Selections ==
  { << >> } \cup { <<f>> : f \in Files }
            \cup { <<f, g>> : f \in Files, g \in Files }

ServerExploded ==
  <<"s", "e", "r", "v", "e", "r", " ", "e", "x", "p", "l", "o", "d", "e", "d">>

ErrorBodies ==
  { EmptyText, ServerExploded }

Member(key, value) ==
  [key |-> key, value |-> value]

\* The JSON bodies the backend answers with in the session model.
Payloads ==
  { JsObject(<< Member(REPLY_FIELDS[1], JsString(<<"H", "i", "!">>)) >>),
    JsNull }

Outcomes ==
  { NetworkFailure(ErrorObject(FETCH_FAILED_MESSAGE)), NetworkFailure(NonErrorValue),
    UnparsableResponse }
  \cup { HttpErrorResponse(b) : b \in ErrorBodies }
  \cup { JsonResponse(p) : p \in Payloads }

(***************************************************************************)
(* The endpoint.  The page reads two variables of process.env when its     *)
(* module loads and joins them into the one target of every request.  The  *)
(* host of the default URL is cut after its first label.                   *)
(***************************************************************************)
DEFAULT_BACKEND_URL ==
  <<"h", "t", "t", "p", "s", ":", "/", "/", "f", "a", "s", "t", "a", "p", "i", "-", "d", "e", "v">>

DEFAULT_BACKEND_PATH ==
  <<"/", "c", "h", "a", "t">>

Slash ==
  "/"

\* Mutant of ReplaceTrailingSlashes: replace(/\/$/, ''), one slash only.
ReplaceOneTrailingSlash(s) ==
  IF s # << >> /\ s[Len(s)] = Slash THEN SubSeq(s, 1, Len(s) - 1) ELSE s

\* s.replace(/\/+$/, ''): the whole run of slashes that ends the text goes
RECURSIVE ReplaceTrailingSlashes(_)
ReplaceTrailingSlashes(s) ==
  IF s # << >> /\ s[Len(s)] = Slash
    THEN ReplaceTrailingSlashes(SubSeq(s, 1, Len(s) - 1))
    ELSE s

\* s.startsWith('/')
StartsWithSlash(s) ==
  s # << >> /\ s[1] = Slash

\* path.startsWith('/') ? path : `/${path}`
EnsureLeadingSlash(path) ==
  IF StartsWithSlash(path) THEN path ELSE <<Slash>> \o path

\* process.env.NEXT_PUBLIC_BACKEND_URL ?? DEFAULT_BACKEND_URL
RAW_BACKEND_URL ==
  Coalesce(env.NEXT_PUBLIC_BACKEND_URL, JsString(DEFAULT_BACKEND_URL)).text

\* process.env.NEXT_PUBLIC_BACKEND_PATH ?? DEFAULT_BACKEND_PATH
RAW_BACKEND_PATH ==
  Coalesce(env.NEXT_PUBLIC_BACKEND_PATH, JsString(DEFAULT_BACKEND_PATH)).text

NORMALIZED_BACKEND_URL ==
  ReplaceTrailingSlashes(RAW_BACKEND_URL)

NORMALIZED_BACKEND_PATH ==
  EnsureLeadingSlash(RAW_BACKEND_PATH)

\* `${NORMALIZED_BACKEND_URL}${NORMALIZED_BACKEND_PATH}`
BACKEND_ENDPOINT ==
  NORMALIZED_BACKEND_URL \o NORMALIZED_BACKEND_PATH

\* const endpoint = useMemo(() => BACKEND_ENDPOINT, [])
endpoint ==
  BACKEND_ENDPOINT

Environment(url, path) ==
  [NEXT_PUBLIC_BACKEND_URL |-> url, NEXT_PUBLIC_BACKEND_PATH |-> path]

\* Neither variable is set: the page falls back on its defaults.
UnsetEnvironment ==
  Environment(Undefined, Undefined)

HttpsX ==
  <<"h", "t", "t", "p", "s", ":", "/", "/", "x">>

Chat ==
  <<"c", "h", "a", "t">>

\* The values a deployment can give the two variables.
ConfiguredUrls ==
  { Undefined, JsString(EmptyText), JsString(HttpsX), JsString(HttpsX \o <<Slash>>),
    JsString(HttpsX \o <<Slash, Slash>>) }

ConfiguredPaths ==
  { Undefined, JsString(EmptyText), JsString(Chat), JsString(<<Slash>> \o Chat),
    JsString(<<Slash, Slash>> \o Chat), JsString(Chat \o <<Slash>>) }

Environments ==
  { Environment(url, path) : url \in ConfiguredUrls, path \in ConfiguredPaths }

(***************************************************************************)
(* The controller.                                                         *)
(***************************************************************************)
NoRequest ==
  [url |-> << >>, method |-> "", contentType |-> "", body |-> "",
   prompt |-> << >>, files |-> << >>]

\* What `last` records of a step: the callback, whether submitPrompt went
\* past its guard, the request it issued or that settled, the outcome, and
\* the argument of removeAttachment (<<index>>, << >> for the other steps),
\* the files of the change event of handleFileChange and the text
\* submitPrompt worked on (preset ?? input).
Event(op, accepted, request, outcome) ==
  [op |-> op, accepted |-> accepted, request |-> request, outcome |-> outcome,
   index |-> << >>, selection |-> << >>, text |-> << >>]

\* null of highlightedSuggestion (no suggestion is the empty text)
NoSuggestion ==
  << >>

UserMessage(trimmed) ==
  [role |-> "user", content |-> JsString(trimmed)]

AssistantMessage(content) ==
  [role |-> "assistant", content |-> content]

InitialMessages ==
  << AssistantMessage(JsString(WELCOME_MESSAGE)) >>

\* Mutant of Rejects: the guard without the isLoading test.
RejectsEmptyOnly(trimmed) ==
  trimmed = EmptyText

\* Mutant of Rejects: the guard without the test of the trimmed text.
RejectsLoadingOnly(trimmed) ==
  isLoading

\* if (!trimmed || isLoading) return
Rejects(trimmed) ==
  trimmed = EmptyText \/ isLoading

\* Mutant of BuildRequest: the request is always the JSON one and the staged
\* files are not sent.
BuildRequestJsonOnly(trimmed, files) ==
  [url |-> endpoint, method |-> "POST", contentType |-> "application/json",
   body |-> "json", prompt |-> trimmed, files |-> << >>]

\* requestInit: multipart FormData when files are staged, JSON otherwise
BuildRequest(trimmed, files) ==
  IF Len(files) > 0
    THEN [url |-> endpoint, method |-> "POST", contentType |-> "",
          body |-> "multipart", prompt |-> trimmed, files |-> files]
    ELSE [url |-> endpoint, method |-> "POST", contentType |-> "application/json",
          body |-> "json", prompt |-> trimmed, files |-> << >>]

\* Mutant of SubmitPrompt: the accepted path without setInput('').
SubmitPromptKeepsInput(op, text) ==
  LET trimmed == Trim(text) IN
  IF Rejects(trimmed)
    THEN /\ UNCHANGED <<messages, input, isLoading, error, attachedFiles,
                        requests>>
         /\ last' = [Event(op, FALSE, NoRequest, NoOutcome) EXCEPT !.text = text]
    ELSE /\ Len(messages) < MaxMessages
         /\ error' = EmptyText
         /\ isLoading' = TRUE
         /\ messages' = Append(messages, UserMessage(trimmed))
         /\ requests' = Append(requests, BuildRequest(trimmed, attachedFiles))
         /\ UNCHANGED <<attachedFiles, input>>
         /\ last' = [Event(op, TRUE, BuildRequest(trimmed, attachedFiles), NoOutcome)
                      EXCEPT !.text = text]

\* Mutant of SubmitPrompt: the accepted path without setError('').
SubmitPromptKeepsError(op, text) ==
  LET trimmed == Trim(text) IN
  IF Rejects(trimmed)
    THEN /\ UNCHANGED <<messages, input, isLoading, error, attachedFiles,
                        requests>>
         /\ last' = [Event(op, FALSE, NoRequest, NoOutcome) EXCEPT !.text = text]
    ELSE /\ Len(messages) < MaxMessages
         /\ isLoading' = TRUE
         /\ messages' = Append(messages, UserMessage(trimmed))
         /\ input' = EmptyText
         /\ requests' = Append(requests, BuildRequest(trimmed, attachedFiles))
         /\ UNCHANGED <<attachedFiles, error>>
         /\ last' = [Event(op, TRUE, BuildRequest(trimmed, attachedFiles), NoOutcome)
                      EXCEPT !.text = text]

\* submitPrompt(preset) up to its await; text is preset ?? input
SubmitPrompt(op, text) ==
  LET trimmed == Trim(text) IN
  IF Rejects(trimmed)
    THEN /\ UNCHANGED <<messages, input, isLoading, error, attachedFiles,
                        requests>>
         /\ last' = [Event(op, FALSE, NoRequest, NoOutcome) EXCEPT !.text = text]
    ELSE /\ Len(messages) < MaxMessages
         /\ error' = EmptyText
         /\ isLoading' = TRUE
         /\ messages' = Append(messages, UserMessage(trimmed))
         /\ input' = EmptyText
         /\ requests' = Append(requests, BuildRequest(trimmed, attachedFiles))
         /\ UNCHANGED attachedFiles
         /\ last' = [Event(op, TRUE, BuildRequest(trimmed, attachedFiles), NoOutcome)
                      EXCEPT !.text = text]

\* <textarea onChange={... setInput(event.target.value)} disabled={isLoading}>
ChangeInput(value) ==
  /\ ~isLoading
  /\ input' = value
  /\ UNCHANGED <<messages, isLoading, error, highlightedSuggestion, attachedFiles,
                 activeHistoryId, requests, env>>
  /\ last' = Event("input", FALSE, NoRequest, NoOutcome)

\* handleSubmit: submitPrompt() with no preset
HandleSubmit ==
  /\ SubmitPrompt("submit", input)
  /\ UNCHANGED <<highlightedSuggestion, activeHistoryId, env>>

\* Mutant of ClickSuggestion: submitPrompt() without the preset, which sends
\* the content of the input field.
ClickSuggestionSendsInput(suggestion) ==
  /\ highlightedSuggestion' = suggestion
  /\ SubmitPrompt("suggestion", input)
  /\ UNCHANGED <<activeHistoryId, env>>

\* the onClick of a suggestion button
ClickSuggestion(suggestion) ==
  /\ highlightedSuggestion' = suggestion
  /\ SubmitPrompt("suggestion", suggestion)
  /\ UNCHANGED <<activeHistoryId, env>>

\* Mutant of HandleFileChange: setAttachedFiles(Array.from(files)), the
\* selection replaces what was staged.
HandleFileChangeReplaces(files) ==
  /\ attachedFiles' = IF Len(files) = 0 THEN attachedFiles ELSE files
  /\ UNCHANGED <<messages, input, isLoading, error, highlightedSuggestion,
                 activeHistoryId, requests, env>>
  /\ last' = [Event("stage", FALSE, NoRequest, NoOutcome) EXCEPT !.selection = files]

\* handleFileChange: if (!files?.length) return; otherwise the selection is
\* appended to the staged list
HandleFileChange(files) ==
  /\ attachedFiles' = IF Len(files) = 0 THEN attachedFiles ELSE attachedFiles \o files
  /\ UNCHANGED <<messages, input, isLoading, error, highlightedSuggestion,
                 activeHistoryId, requests, env>>
  /\ last' = [Event("stage", FALSE, NoRequest, NoOutcome) EXCEPT !.selection = files]

\* Mutant of RemoveAt: the position is counted from 1.
RemoveAtFromOne(prev, index) ==
  LET keep == {i \in 1..Len(prev) : i # index}
      F[i \in 0..Len(prev)] ==
        IF i = 0 THEN << >>
        ELSE IF i \in keep THEN Append(F[i - 1], prev[i]) ELSE F[i - 1]
  IN  F[Len(prev)]

\* prev.filter((_, idx) => idx !== index), index counted from 0
RemoveAt(prev, index) ==
  LET keep == {i \in 1..Len(prev) : i - 1 # index}
      F[i \in 0..Len(prev)] ==
        IF i = 0 THEN << >>
        ELSE IF i \in keep THEN Append(F[i - 1], prev[i]) ELSE F[i - 1]
  IN  F[Len(prev)]

removeAttachment(index) ==
  /\ attachedFiles' = RemoveAt(attachedFiles, index)
  /\ UNCHANGED <<messages, input, isLoading, error, highlightedSuggestion,
                 activeHistoryId, requests, env>>
  /\ last' = [Event("remove", FALSE, NoRequest, NoOutcome) EXCEPT !.index = <<index>>]

\* Mutant of handleNewChat: the reset without setError('').
handleNewChatKeepsError ==
  /\ messages' = InitialMessages
  /\ input' = EmptyText
  /\ attachedFiles' = << >>
  /\ highlightedSuggestion' = NoSuggestion
  /\ UNCHANGED <<error, isLoading, activeHistoryId, requests, env>>
  /\ last' = Event("newChat", FALSE, NoRequest, NoOutcome)

\* Mutant of handleNewChat: the reset also calls setIsLoading(false).
handleNewChatClearsLoading ==
  /\ messages' = InitialMessages
  /\ input' = EmptyText
  /\ error' = EmptyText
  /\ attachedFiles' = << >>
  /\ highlightedSuggestion' = NoSuggestion
  /\ isLoading' = FALSE
  /\ UNCHANGED <<activeHistoryId, requests, env>>
  /\ last' = Event("newChat", FALSE, NoRequest, NoOutcome)

\* Mutant of handleNewChat: the reset aborts the pending call and lowers the
\* loading flag.
handleNewChatCancelsRequest ==
  /\ messages' = InitialMessages
  /\ input' = EmptyText
  /\ error' = EmptyText
  /\ attachedFiles' = << >>
  /\ highlightedSuggestion' = NoSuggestion
  /\ isLoading' = FALSE
  /\ requests' = << >>
  /\ UNCHANGED <<activeHistoryId, env>>
  /\ last' = Event("newChat", FALSE, NoRequest, NoOutcome)

handleNewChat ==
  /\ messages' = InitialMessages
  /\ input' = EmptyText
  /\ error' = EmptyText
  /\ attachedFiles' = << >>
  /\ highlightedSuggestion' = NoSuggestion
  /\ UNCHANGED <<isLoading, activeHistoryId, requests, env>>
  /\ last' = Event("newChat", FALSE, NoRequest, NoOutcome)

handleHistorySelect(id) ==
  /\ activeHistoryId' = id
  /\ UNCHANGED <<messages, input, isLoading, error, highlightedSuggestion,
                 attachedFiles, requests, env>>
  /\ last' = Event("history", FALSE, NoRequest, NoOutcome)

\* Mutant of Thrown: payload?.reply, a null body does not throw.
ThrownOptionalChaining(outcome) ==
  IF outcome.kind = "rejected" THEN outcome.reason
  ELSE IF ~outcome.ok
    THEN ErrorObject(IF outcome.text # EmptyText THEN outcome.text
                     ELSE BACKEND_ERROR_FALLBACK)
  ELSE IF ~outcome.jsonValid THEN ErrorObject(JSON_SYNTAX_MESSAGE)
  ELSE NotThrown

\* What the try block throws for an outcome, NotThrown when it completes.
Thrown(outcome) ==
  IF outcome.kind = "rejected" THEN outcome.reason
  ELSE IF ~outcome.ok
    THEN ErrorObject(IF outcome.text # EmptyText THEN outcome.text
                     ELSE BACKEND_ERROR_FALLBACK)
  ELSE IF ~outcome.jsonValid THEN ErrorObject(JSON_SYNTAX_MESSAGE)
  ELSE IF IsNullish(outcome.json) THEN ErrorObject(NULL_PROPERTY_MESSAGE)
  ELSE NotThrown

\* Mutant of CaughtMessage: err.message without the instanceof test.
CaughtMessageUnchecked(err) ==
  err.message

\* err instanceof Error ? err.message : 'Unable to reach the backend. ...'
CaughtMessage(err) ==
  IF err.isError THEN err.message ELSE UNREACHABLE_FALLBACK

\* Mutant of ErrorAfterSettle: the catch block surfaces the generic text and
\* drops the message of the error.
ErrorAfterSettleGeneric(prev, caught) ==
  IF caught.thrown THEN UNREACHABLE_FALLBACK ELSE prev

\* setError(message) in the catch block only
ErrorAfterSettle(prev, caught) ==
  IF caught.thrown THEN CaughtMessage(caught) ELSE prev

\* Mutant of MessagesAfterSettle: the catch block appends nothing.
MessagesAfterSettleSilentCatch(prev, caught, outcome) ==
  IF caught.thrown
    THEN prev
    ELSE Append(prev, AssistantMessage(assistantContent(outcome.json)))

\* Mutant of MessagesAfterSettle: the assistant message is put in front of
\* the transcript, setMessages((prev) => [message, ...prev]).
MessagesAfterSettlePrepends(prev, caught, outcome) ==
  IF caught.thrown
    THEN <<AssistantMessage(JsString(APOLOGY_MESSAGE))>> \o prev
    ELSE <<AssistantMessage(assistantContent(outcome.json))>> \o prev

\* the one setMessages of the try block or of the catch block
MessagesAfterSettle(prev, caught, outcome) ==
  IF caught.thrown
    THEN Append(prev, AssistantMessage(JsString(APOLOGY_MESSAGE)))
    ELSE Append(prev, AssistantMessage(assistantContent(outcome.json)))

\* Mutant of FilesAfterSettle: setAttachedFiles([]) in the finally block.
FilesAfterSettleAlwaysCleared(prev, caught) ==
  << >>

\* setAttachedFiles([]) at the end of the try block only
FilesAfterSettle(prev, caught) ==
  IF caught.thrown THEN prev ELSE << >>

\* Mutant of LoadingAfterSettle: setIsLoading(false) at the end of the try
\* block instead of in the finally block.
LoadingAfterSettleTryOnly(caught) ==
  caught.thrown

\* setIsLoading(false) in the finally block
LoadingAfterSettle(caught) ==
  FALSE

\* Mutant of RemoveRequest: the settled call is issued again.
RemoveRequestAndRetry(reqs, i) ==
  Append(SubSeq(reqs, 1, i - 1) \o SubSeq(reqs, i + 1, Len(reqs)), reqs[i])

RemoveRequest(reqs, i) ==
  SubSeq(reqs, 1, i - 1) \o SubSeq(reqs, i + 1, Len(reqs))

\* The continuation of submitPrompt once its fetch() has settled: the rest
\* of the try block, the catch block and the finally block.  The awaits of
\* response.text() and response.json() write no state, so the continuation
\* is one step.
SettleWith(i, outcome) ==
  LET caught == Thrown(outcome) IN
  /\ error' = ErrorAfterSettle(error, caught)
  /\ messages' = MessagesAfterSettle(messages, caught, outcome)
  /\ attachedFiles' = FilesAfterSettle(attachedFiles, caught)
  /\ isLoading' = LoadingAfterSettle(caught)
  /\ requests' = RemoveRequest(requests, i)
  /\ UNCHANGED <<input, highlightedSuggestion, activeHistoryId, env>>
  /\ last' = Event("settle", ~caught.thrown, requests[i], outcome)

Settle ==
  \E i \in 1..Len(requests) : \E outcome \in Outcomes : SettleWith(i, outcome)

(***************************************************************************)
(* The page without attachments (the second Home component of the          *)
(* repository).  Its state is the record plain, whose fields carry the     *)
(* names of its useState variables; requests holds its fetch() calls that  *)
(* have not settled.  trim(), the ?? chain, what the try block throws and  *)
(* the message of the catch block are the same expressions as on the page  *)
(* with attachments and are computed by the same operators.                *)
(***************************************************************************)
PlainMounted ==
  [messages |-> InitialMessages, input |-> EmptyText, isLoading |-> FALSE,
   error |-> EmptyText, highlightedSuggestion |-> NoSuggestion,
   requests |-> << >>]

\* Mutant of PlainBuildRequest: the call without its headers.
PlainBuildRequestNoHeaders(trimmed) ==
  [url |-> endpoint, method |-> "POST", contentType |-> "", body |-> "json",
   prompt |-> trimmed, files |-> << >>]

\* fetch(endpoint, {method: 'POST', headers: {'Content-Type':
\* 'application/json'}, body: JSON.stringify({prompt: trimmed})})
PlainBuildRequest(trimmed) ==
  [url |-> endpoint, method |-> "POST", contentType |-> "application/json",
   body |-> "json", prompt |-> trimmed, files |-> << >>]

\* submitPrompt(preset) of the page without attachments, up to its await;
\* highlighted is what the caller leaves in highlightedSuggestion
PlainSubmitPrompt(text, highlighted) ==
  LET trimmed == Trim(text) IN
  IF trimmed = EmptyText \/ plain.isLoading
    THEN plain' = [plain EXCEPT !.highlightedSuggestion = highlighted]
    ELSE /\ Len(plain.messages) < MaxMessages
         /\ plain' = [plain EXCEPT
                        !.error = EmptyText,
                        !.isLoading = TRUE,
                        !.messages = Append(@, UserMessage(trimmed)),
                        !.input = EmptyText,
                        !.requests = Append(@, PlainBuildRequest(trimmed)),
                        !.highlightedSuggestion = highlighted]

\* <textarea onChange={... setInput(event.target.value)} disabled={isLoading}>
PlainChangeInput(value) ==
  /\ ~plain.isLoading
  /\ plain' = [plain EXCEPT !.input = value]

\* handleSubmit: submitPrompt() with no preset
PlainHandleSubmit ==
  PlainSubmitPrompt(plain.input, plain.highlightedSuggestion)

\* the onClick of a suggestion button
PlainClickSuggestion(suggestion) ==
  PlainSubmitPrompt(suggestion, suggestion)

\* The continuation of submitPrompt of the page without attachments.
PlainSettleWith(i, outcome) ==
  LET caught == Thrown(outcome) IN
  /\ i \in 1..Len(plain.requests)
  /\ plain' = [plain EXCEPT
                 !.error = IF caught.thrown THEN CaughtMessage(caught) ELSE @,
                 !.messages =
                   IF caught.thrown
                     THEN Append(@, AssistantMessage(JsString(APOLOGY_MESSAGE)))
                     ELSE Append(@, AssistantMessage(assistantContent(outcome.json))),
                 !.isLoading = FALSE,
                 !.requests = SubSeq(@, 1, i - 1) \o SubSeq(@, i + 1, Len(@))]

\* The component as it mounts.
Mounted ==
  /\ messages = InitialMessages
  /\ input = EmptyText
  /\ isLoading = FALSE
  /\ error = EmptyText
  /\ highlightedSuggestion = NoSuggestion
  /\ attachedFiles = << >>
  /\ activeHistoryId = HISTORY_SESSIONS[1]
  /\ requests = << >>
  /\ last = Event("init", FALSE, NoRequest, NoOutcome)

\* The session model runs the page with neither variable set.
Init ==
  /\ env = UnsetEnvironment
  /\ Mounted
  /\ plain = PlainMounted

\* The callbacks of the Chat Session Controller and the settling of its
\* network call.
Next ==
  \/ UNCHANGED plain /\ \E value \in Inputs : ChangeInput(value)
  \/ UNCHANGED plain /\ HandleSubmit
  \/ UNCHANGED plain /\ \E i \in 1..Len(PROMPT_SUGGESTIONS) :
                           ClickSuggestion(PROMPT_SUGGESTIONS[i])
  \/ UNCHANGED plain /\ \E files \in Selections :
       Len(attachedFiles) + Len(files) <= MaxFiles /\ HandleFileChange(files)
  \/ UNCHANGED plain /\ \E index \in 0..Len(attachedFiles) : removeAttachment(index)
  \/ UNCHANGED plain /\ handleNewChat
  \/ UNCHANGED plain /\ Settle

Spec ==
  Init /\ [][Next]_vars

\* The network call of an accepted submission eventually completes or fails.
FairSpec ==
  Spec /\ WF_vars(UNCHANGED plain /\ Settle)

\* The whole page: the controller and the history list.  activeHistoryId is
\* read and written by handleHistorySelect and the history markup only.
HistorySelect ==
  \E i \in 1..Len(HISTORY_SESSIONS) : handleHistorySelect(HISTORY_SESSIONS[i])

PageNext ==
  \/ Next
  \/ UNCHANGED plain /\ HistorySelect

PageSpec ==
  Init /\ [][PageNext]_vars

(***************************************************************************)
(* The attachment list on its own: files are staged up to MaxStaged and    *)
(* removed at every position, in and out of range, and what is staged is   *)
(* sent with the text of the form or of the first suggestion.              *)
(***************************************************************************)
MaxStaged ==
  2

AttachStage ==
  \E files \in Selections :
    Len(attachedFiles) + Len(files) <= MaxStaged /\ HandleFileChange(files)

AttachRemove ==
  \E index \in -1..Len(attachedFiles) : removeAttachment(index)

AttachNext ==
  \/ UNCHANGED plain /\ AttachStage
  \/ UNCHANGED plain /\ AttachRemove
  \/ UNCHANGED plain /\ \E value \in Inputs : ChangeInput(value)
  \/ UNCHANGED plain /\ HandleSubmit
  \/ UNCHANGED plain /\ ClickSuggestion(PROMPT_SUGGESTIONS[1])
  \/ UNCHANGED plain /\ Settle

AttachSpec ==
  Init /\ [][AttachNext]_vars

(***************************************************************************)
(* The endpoint on its own: the page is loaded under every environment of  *)
(* Environments, the first suggestion is clicked and the call settles.     *)
(***************************************************************************)
EndpointInit ==
  /\ env \in Environments
  /\ Mounted
  /\ plain = PlainMounted

EndpointNext ==
  \/ UNCHANGED plain /\ ClickSuggestion(PROMPT_SUGGESTIONS[1])
  \/ UNCHANGED plain /\ Settle

EndpointSpec ==
  EndpointInit /\ [][EndpointNext]_vars

(***************************************************************************)
(* The two pages side by side: each event (typing, a form submit, a        *)
(* suggestion click, the settling of the call with one outcome) reaches    *)
(* both; no file is staged and no chat is created.                         *)
(***************************************************************************)
PairChangeInput ==
  \E value \in Inputs : ChangeInput(value) /\ PlainChangeInput(value)

PairSubmit ==
  HandleSubmit /\ PlainHandleSubmit

PairClickSuggestion ==
  \E i \in 1..Len(PROMPT_SUGGESTIONS) :
    ClickSuggestion(PROMPT_SUGGESTIONS[i]) /\ PlainClickSuggestion(PROMPT_SUGGESTIONS[i])

PairSettle ==
  \E i \in 1..Len(requests) : \E outcome \in Outcomes :
    SettleWith(i, outcome) /\ PlainSettleWith(i, outcome)

PairNext ==
  \/ PairChangeInput
  \/ PairSubmit
  \/ PairClickSuggestion
  \/ PairSettle

PairSpec ==
  Init /\ [][PairNext]_vars

(***************************************************************************)
(* The reply extraction on its own: one suggestion is clicked and the      *)
(* backend answers 200 with every JSON body of ReplyPayloads.              *)
(***************************************************************************)
PresenceKinds ==
  {"absent", "null", "string"}

\* The string each reply field holds when it holds one.
ReplyLetters ==
  <<"R", "A", "O", "S", "M">>

RECURSIVE ReplyMembers(_, _)
ReplyMembers(c, i) ==
  IF i > Len(REPLY_FIELDS) THEN << >>
  ELSE (IF c[i] = "absent" THEN << >>
        ELSE << Member(REPLY_FIELDS[i],
                       IF c[i] = "null" THEN JsNull
                       ELSE JsString(<<ReplyLetters[i]>>)) >>)
       \o ReplyMembers(c, i + 1)

FooBar ==
  Member(<<"f", "o", "o">>, JsString(<<"b", "a", "r">>))

\* Every object in which each of the five fields is absent, null or a
\* string, with and without a sixth field foo; and bodies of other shapes.
ReplyPayloads ==
  { JsObject(ReplyMembers(c, 1) \o extra) :
      c \in [1..Len(REPLY_FIELDS) -> PresenceKinds], extra \in {<< >>, <<FooBar>>} }
  \cup
  { JsObject(<< Member(REPLY_FIELDS[5], JsString(<<"M">>)),
                Member(REPLY_FIELDS[2], JsString(<<"A">>)) >>),
    JsObject(<< Member(REPLY_FIELDS[1], JsNumber(<<"4", "2">>)) >>),
    JsObject(<< Member(REPLY_FIELDS[1], JsBoolean(<<"f", "a", "l", "s", "e">>)),
                Member(REPLY_FIELDS[2], JsString(<<"A">>)) >>),
    JsObject(<< Member(REPLY_FIELDS[1], JsString(EmptyText)),
                Member(REPLY_FIELDS[2], JsString(<<"A">>)) >>),
    JsObject(<< Member(REPLY_FIELDS[3], JsArray(<< JsNumber(<<"1">>) >>)) >>),
    JsString(<<"h", "i">>),
    JsNumber(<<"7">>),
    JsArray(<< JsString(<<"h", "i">>), JsNull >>),
    JsNull }

ReplySettle ==
  \E i \in 1..Len(requests) : \E p \in ReplyPayloads : SettleWith(i, JsonResponse(p))

ReplyNext ==
  \/ UNCHANGED plain /\ ClickSuggestion(PROMPT_SUGGESTIONS[1])
  \/ UNCHANGED plain /\ ReplySettle

ReplySpec ==
  Init /\ [][ReplyNext]_vars

(***************************************************************************)
(* Properties of the controller.                                           *)
(***************************************************************************)
IsSubmitStep ==
  last'.op \in {"submit", "suggestion"}

IsSettleStep ==
  last'.op = "settle"

\* The text a submit step was invoked with: the clicked suggestion, or the
\* content of the input field for the form.
SubmittedText ==
  IF last'.op = "suggestion" THEN highlightedSuggestion' ELSE input

LastMessage(ms) ==
  ms[Len(ms)]

ApologyMessage ==
  [role |-> "assistant", content |-> JsString(APOLOGY_MESSAGE)]

\* The outcome is a 2xx response whose body is a JSON value other than null.
IsSuccess(outcome) ==
  /\ outcome.kind = "response"
  /\ outcome.ok
  /\ outcome.jsonValid
  /\ outcome.json.kind # "null"

\* C1: while a submission is pending, a submit (form or suggestion click,
\* any text) appends no message and issues no request; at most one request
\* is outstanding in every reachable state.
SingleFlight ==
  /\ [](Len(requests) <= 1)
  /\ [][(isLoading /\ IsSubmitStep)
          => (messages' = messages /\ requests' = requests)]_vars

\* A suggestion click was rejected while a request is outstanding.
SingleFlightWitness ==
  /\ isLoading
  /\ Len(requests) = 1
  /\ last.op = "suggestion"
  /\ ~last.accepted

\* C2: whatever the outcome of the network call, the settle step appends
\* exactly one message, of role assistant, to the transcript.
OneAssistantMessagePerSettle ==
  [][IsSettleStep
       => /\ Len(messages') = Len(messages) + 1
          /\ SubSeq(messages', 1, Len(messages)) = messages
          /\ LastMessage(messages').role = "assistant"]_vars

\* A 2xx response with an unparsable body has settled and the transcript
\* ends with the one assistant message of that submission.
OneAssistantMessagePerSettleWitness ==
  /\ last.op = "settle"
  /\ last.outcome = UnparsableResponse
  /\ Len(messages) = 3
  /\ messages[2].role = "user"
  /\ messages[3].role = "assistant"

\* C3: a submit with text that is non-empty after trimming, invoked while
\* nothing is pending, appends exactly one user message holding the trimmed
\* text, clears the input field and sets the loading flag in the very step
\* that issues the request, which is still outstanding after the step.
AcceptedSubmitAppendsUserMessage ==
  [][(IsSubmitStep /\ ~isLoading /\ Trim(SubmittedText) # EmptyText)
       => /\ messages' = Append(messages,
                                [role |-> "user",
                                 content |-> JsString(Trim(SubmittedText))])
          /\ ~IsWhiteSpace(Head(LastMessage(messages').content.text))
          /\ ~IsWhiteSpace(LastMessage(LastMessage(messages').content.text))
          /\ input' = EmptyText
          /\ isLoading'
          /\ requests' = Append(requests, last'.request)
          /\ last'.request.prompt = Trim(SubmittedText)]_vars

\* The form was submitted with the padded input " Hello\n": the transcript
\* ends with the user message "Hello" and the request is outstanding.
AcceptedSubmitWitness ==
  /\ last.op = "submit"
  /\ last.accepted
  /\ LastMessage(messages) = [role |-> "user", content |-> JsString(Hello)]
  /\ input = EmptyText
  /\ isLoading
  /\ Len(requests) = 1

\* C4: every accepted submission eventually settles, every settle clears the
\* loading flag, and a submit with non-empty text invoked while the flag is
\* clear is accepted.
SettleAlwaysClearsLoading ==
  /\ (Len(requests) > 0) ~> (Len(requests) = 0)
  /\ isLoading ~> ~isLoading
  /\ [][IsSettleStep => ~isLoading']_vars
  /\ [][(IsSubmitStep /\ ~isLoading /\ Trim(SubmittedText) # EmptyText)
          => (last'.accepted /\ isLoading')]_vars

\* A submission was accepted after the previous one had failed: the
\* transcript holds the apology of the failed one, then the new user message.
SettleAlwaysClearsLoadingWitness ==
  /\ Len(messages) = 3
  /\ messages[2] = ApologyMessage
  /\ messages[3].role = "user"
  /\ last.accepted
  /\ isLoading

Range(s) ==
  {s[i] : i \in 1..Len(s)}

\* The payload is an object with an own property of that name.
HasField(payload, key) ==
  /\ payload.kind = "object"
  /\ \E i \in 1..Len(payload.members) : payload.members[i].key = key

FieldValue(payload, key) ==
  payload.members[CHOOSE i \in 1..Len(payload.members) :
                    payload.members[i].key = key].value

\* The value of the first of the five fields whose index is in hits, and the
\* JSON text of the whole payload when hits is empty.
FirstFieldOr(payload, hits) ==
  IF hits = {}
    THEN JsString(JSONStringify(payload))
    ELSE FieldValue(payload,
                    REPLY_FIELDS[CHOOSE i \in hits : \A j \in hits : i <= j])

\* C5 as stated: on a 2xx response (with a body that is a JSON value other
\* than null) the appended content is the value of the first present field
\* among reply, answer, output, response, message, and the JSON
\* serialization of the payload when none of the five is present.
ReplyIsFirstPresentField ==
  [][(IsSettleStep /\ IsSuccess(last'.outcome))
       => LET payload == last'.outcome.json
              present == {i \in 1..Len(REPLY_FIELDS) :
                            HasField(payload, REPLY_FIELDS[i])}
          IN  LastMessage(messages').content = FirstFieldOr(payload, present)]_vars

\* C5 as amended: on a 2xx response whose body is a JSON value other than
\* null, the appended content is the value of the first of the five fields
\* that is present with a value other than null, and the JSON serialization
\* of the payload when no field is.
ReplyIsFirstNonNullField ==
  [][(IsSettleStep /\ IsSuccess(last'.outcome))
       => LET payload == last'.outcome.json
              nonNull == {i \in 1..Len(REPLY_FIELDS) :
                            /\ HasField(payload, REPLY_FIELDS[i])
                            /\ FieldValue(payload, REPLY_FIELDS[i]).kind # "null"}
          IN  LastMessage(messages').content = FirstFieldOr(payload, nonNull)]_vars

\* The backend answered {"reply":null,"answer":"A","message":"M"} and the
\* transcript ends with the assistant message "A".
ReplyIsFirstNonNullFieldWitness ==
  /\ last.op = "settle"
  /\ last.outcome.json
       = JsObject(<< Member(REPLY_FIELDS[1], JsNull),
                     Member(REPLY_FIELDS[2], JsString(<<"A">>)),
                     Member(REPLY_FIELDS[5], JsString(<<"M">>)) >>)
  /\ LastMessage(messages) = [role |-> "assistant", content |-> JsString(<<"A">>)]

\* C6: on a non-2xx response the error slot holds the body text, or the
\* fallback string when the body is empty, the appended assistant message is
\* the fixed apology, and the body text is in no message of the transcript.
BackendErrorSurfacedOutsideTranscript ==
  /\ [][(IsSettleStep /\ last'.outcome.kind = "response" /\ ~last'.outcome.ok)
          => /\ error' = IF last'.outcome.text = EmptyText
                           THEN BACKEND_ERROR_FALLBACK
                           ELSE last'.outcome.text
             /\ error' # EmptyText
             /\ messages' = Append(messages, ApologyMessage)]_vars
  /\ [](\A i \in 1..Len(messages) :
          messages[i].content.text \notin (ErrorBodies \ {EmptyText}))

\* Status 500 with body "server exploded" has settled: the error slot holds
\* the body and the transcript ends with the apology.
BackendErrorWitness ==
  /\ last.op = "settle"
  /\ last.outcome = HttpErrorResponse(ServerExploded)
  /\ error = ServerExploded
  /\ LastMessage(messages) = ApologyMessage

\* C7: when the call ends without a response, the appended assistant message
\* is the same fixed apology and the error slot holds a non-empty string:
\* the message of the error fetch rejected with, or the fallback string.
NetworkFailureSurfaced ==
  [][(IsSettleStep /\ last'.outcome.kind = "rejected")
       => /\ messages' = Append(messages, ApologyMessage)
          /\ error' # EmptyText
          /\ error' = IF last'.outcome.reason.isError
                        THEN last'.outcome.reason.message
                        ELSE UNREACHABLE_FALLBACK]_vars

\* fetch has rejected with a TypeError: the error slot holds its message and
\* the transcript ends with the apology.
NetworkFailureWitness ==
  /\ last.op = "settle"
  /\ last.outcome = NetworkFailure(ErrorObject(FETCH_FAILED_MESSAGE))
  /\ error = FETCH_FAILED_MESSAGE
  /\ LastMessage(messages) = ApologyMessage

\* C8 as stated: a staged file leaves the staged sequence only by having been
\* sent (the settle of a request that carried it), by removeAttachment or by
\* resetSession.
StagedUntilSentRemovedOrReset ==
  [][(last'.op \notin {"remove", "newChat"})
       => \A f \in Range(attachedFiles) \ Range(attachedFiles') :
             /\ IsSettleStep
             /\ f \in Range(last'.request.files)]_vars

\* C9: resetSession in any state, a pending submission included, leaves the
\* transcript with the welcome message alone and the input text, the error,
\* the staged files and the highlighted suggestion empty.
ResetYieldsFreshSession ==
  [][(last'.op = "newChat")
       => /\ messages' = << [role |-> "assistant",
                             content |-> JsString(WELCOME_MESSAGE)] >>
          /\ input' = EmptyText
          /\ error' = EmptyText
          /\ attachedFiles' = << >>
          /\ highlightedSuggestion' = NoSuggestion]_vars

\* The session was reset while a submission is in flight.
ResetWitness ==
  /\ last.op = "newChat"
  /\ isLoading
  /\ Len(requests) = 1
  /\ Len(messages) = 1

\* C10: a successful settle empties the staged files, a settle with an error
\* leaves them as they are, and an accepted submit sends the files staged at
\* that moment (so a resubmission after a failure sends the same files).
StagedFilesClearedOnSuccessOnly ==
  /\ [][(IsSettleStep /\ IsSuccess(last'.outcome)) => attachedFiles' = << >>]_vars
  /\ [][(IsSettleStep /\ ~IsSuccess(last'.outcome))
          => attachedFiles' = attachedFiles]_vars
  /\ [][(IsSubmitStep /\ last'.accepted)
          => (last'.request.files = attachedFiles /\ attachedFiles' = attachedFiles)]_vars

\* A request that carried a file has failed and the file is still staged.
StagedFilesKeptWitness ==
  /\ last.op = "settle"
  /\ ~IsSuccess(last.outcome)
  /\ last.request.files # << >>
  /\ attachedFiles = last.request.files

\* C11: the request of an accepted submit is a POST to the endpoint and its
\* prompt is the trimmed text, the content of the user message appended in
\* the same step; with files staged the body is multipart and carries the
\* staged files in staged order under no content-type header, with none
\* staged the body is JSON under the header application/json.
RequestCarriesTextAndStagedFiles ==
  [][(IsSubmitStep /\ last'.accepted)
       => LET request == last'.request IN
          /\ requests' = Append(requests, request)
          /\ request.method = "POST"
          /\ request.url = BACKEND_ENDPOINT
          /\ request.prompt = Trim(SubmittedText)
          /\ LastMessage(messages') =
               [role |-> "user", content |-> JsString(request.prompt)]
          /\ IF attachedFiles # << >>
               THEN /\ request.body = "multipart"
                    /\ request.contentType = ""
                    /\ request.files = attachedFiles
               ELSE /\ request.body = "json"
                    /\ request.contentType = "application/json"
                    /\ request.files = << >>]_vars

\* The form was submitted with " Hello\n" typed and a.png then b.pdf staged:
\* the outstanding request is multipart and carries the two files in order.
RequestCarriesTextAndStagedFilesWitness ==
  /\ last.op = "submit"
  /\ last.accepted
  /\ requests = <<last.request>>
  /\ last.request.body = "multipart"
  /\ last.request.prompt = Hello
  /\ last.request.files = <<"a.png", "b.pdf">>

\* C12 as stated: every submit, whatever its text, leaves the error slot
\* empty, and the slot is filled again only by a settle that fails.
ErrorClearedByAnySubmit ==
  /\ [][IsSubmitStep => error' = EmptyText]_vars
  /\ [][(error = EmptyText /\ error' # EmptyText)
          => (IsSettleStep /\ ~IsSuccess(last'.outcome))]_vars

\* C12: a submit that goes past the guard (non-blank text, no submission
\* pending) leaves the error slot empty, a submit stopped at the guard leaves
\* the slot as it was, and the slot is filled again only by a settle that
\* fails.
ErrorClearedByAcceptedSubmit ==
  /\ [][(IsSubmitStep /\ Trim(SubmittedText) # EmptyText /\ ~isLoading)
          => error' = EmptyText]_vars
  /\ [][(IsSubmitStep /\ (Trim(SubmittedText) = EmptyText \/ isLoading))
          => error' = error]_vars
  /\ [][(error = EmptyText /\ error' # EmptyText)
          => (IsSettleStep /\ ~IsSuccess(last'.outcome))]_vars

\* A submission failed after a reset (the transcript is the welcome message
\* and the apology), and the next submit was accepted: the error the failed
\* settle had surfaced is gone.
ErrorClearedByAcceptedSubmitWitness ==
  /\ Len(messages) = 3
  /\ messages[2] = ApologyMessage
  /\ last.op \in {"submit", "suggestion"}
  /\ last.accepted
  /\ error = EmptyText

\* C13: removeAttachment(index) with 0 <= index < length leaves the staged
\* files without the one at that position, the others in their order; with
\* an index out of range it leaves the staged sequence as it was; on two
\* staged files, removing index 0 leaves exactly the second.
RemoveAttachmentRemovesThatPosition ==
  [][(last'.op = "remove")
       => LET index == last'.index[1]
              n == Len(attachedFiles)
          IN  /\ IF 0 <= index /\ index < n
                   THEN /\ Len(attachedFiles') = n - 1
                        /\ \A i \in 1..(n - 1) :
                             attachedFiles'[i] =
                               attachedFiles[IF i <= index THEN i ELSE i + 1]
                   ELSE attachedFiles' = attachedFiles
              /\ (n = 2 /\ index = 0) => attachedFiles' = <<attachedFiles[2]>>]_vars

\* removeAttachment(0) has acted on two staged files, of which b.pdf was the
\* second: b.pdf alone is staged.
RemoveAttachmentWitness ==
  /\ last.op = "remove"
  /\ last.index = <<0>>
  /\ attachedFiles = <<"b.pdf">>

\* C14: handleFileChange leaves the staged sequence equal to what was staged
\* followed by the selected files in selection order, so that what was
\* staged keeps its positions; an empty selection leaves it as it was.
StageAppendsSelection ==
  [][(last'.op = "stage")
       => /\ attachedFiles' = attachedFiles \o last'.selection
          /\ SubSeq(attachedFiles', 1, Len(attachedFiles)) = attachedFiles
          /\ (last'.selection = << >>) => (attachedFiles' = attachedFiles)]_vars

\* b.pdf was selected while a.png was staged: a.png is still first and b.pdf
\* follows it.
StageAppendsSelectionWitness ==
  /\ last.op = "stage"
  /\ last.selection = <<"b.pdf">>
  /\ attachedFiles = <<"a.png", "b.pdf">>

\* C15: every step other than handleNewChat (a submit accepted or rejected,
\* a settle, staging or removing a file, typing, a suggestion click, a
\* history select) leaves the transcript it found as a prefix of the
\* transcript it leaves.
TranscriptAppendOnly ==
  [][(last'.op # "newChat")
       => /\ Len(messages') >= Len(messages)
          /\ SubSeq(messages', 1, Len(messages)) = messages]_vars

\* The third history entry was selected and a submission has settled: the
\* transcript is the welcome message, the user message and the answer.
TranscriptAppendOnlyWitness ==
  /\ last.op = "settle"
  /\ activeHistoryId = HISTORY_SESSIONS[3]
  /\ Len(messages) = 3
  /\ messages[1] = InitialMessages[1]
  /\ messages[2].role = "user"
  /\ messages[3].role = "assistant"

\* C16: a submit that goes past the guard issues exactly one request, the
\* settle of a request (failed or not) takes that request away and issues
\* none, and no other step issues or drops a request.  The requests issued
\* and the accepted submissions are both none at the start and grow together
\* in every step, so their totals are equal in every state.
NoRetry ==
  /\ [][(IsSubmitStep /\ last'.accepted)
          => requests' = Append(requests, last'.request)]_vars
  /\ [][IsSettleStep
          => \E i \in 1..Len(requests) :
               /\ requests[i] = last'.request
               /\ requests' = SubSeq(requests, 1, i - 1)
                                \o SubSeq(requests, i + 1, Len(requests))]_vars
  /\ [][(~IsSettleStep /\ ~(IsSubmitStep /\ last'.accepted))
          => requests' = requests]_vars

\* The one request of a submission has failed with a network error: no
\* request is outstanding and the controller is idle.
NoRetryWitness ==
  /\ last.op = "settle"
  /\ last.outcome.kind = "rejected"
  /\ requests = << >>
  /\ ~isLoading

\* C17: a suggestion click highlights the clicked suggestion and hands the
\* same text to submitPrompt; when no submission is pending the step appends
\* the user message whose content is that text, whatever the input field
\* holds, issues the request with that text and the files staged at the
\* click, and leaves the input field and the error slot empty.
SuggestionClickSubmitsSuggestion ==
  [][(last'.op = "suggestion")
       => /\ last'.text \in Range(PROMPT_SUGGESTIONS)
          /\ highlightedSuggestion' = last'.text
          /\ ~isLoading
               => /\ messages' = Append(messages,
                       [role |-> "user", content |-> JsString(last'.text)])
                  /\ requests' = Append(requests, last'.request)
                  /\ last'.request.prompt = last'.text
                  /\ last'.request.files = attachedFiles
                  /\ attachedFiles' = attachedFiles
                  /\ input' = EmptyText
                  /\ error' = EmptyText
                  /\ isLoading']_vars

\* The second suggestion was clicked with a.png staged: it is highlighted,
\* it is the content of the last message, and the request carries a.png.
SuggestionClickWitness ==
  /\ last.op = "suggestion"
  /\ last.accepted
  /\ highlightedSuggestion = PROMPT_SUGGESTIONS[2]
  /\ LastMessage(messages) = [role |-> "user", content |-> JsString(PROMPT_SUGGESTIONS[2])]
  /\ requests = <<last.request>>
  /\ last.request.body = "multipart"
  /\ last.request.files = <<"a.png">>
  /\ input = EmptyText

\* The number of slashes that end a text.
TrailingSlashCount(s) ==
  CHOOSE k \in 0..Len(s) :
    /\ \A i \in (Len(s) - k + 1)..Len(s) : s[i] = "/"
    /\ k < Len(s) => s[Len(s) - k] # "/"

\* C18: when the base URL ends in one or more slashes and the path does not
\* start with a slash, the endpoint, which is the target of every request,
\* is the base without the slashes that end it, one slash, and the path;
\* and for every base and path, resolving the normalized base and the
\* normalized path once more gives the same endpoint.
EndpointHasOneSlashBetween ==
  LET base == RAW_BACKEND_URL
      path == RAW_BACKEND_PATH
      stem == SubSeq(base, 1, Len(base) - TrailingSlashCount(base))
  IN  /\ (TrailingSlashCount(base) >= 1 /\ (path = << >> \/ path[1] # "/"))
           => /\ BACKEND_ENDPOINT = stem \o <<"/">> \o path
              /\ \A i \in 1..Len(requests) :
                   requests[i].url = stem \o <<"/">> \o path
      /\ ReplaceTrailingSlashes(NORMALIZED_BACKEND_URL)
           \o EnsureLeadingSlash(NORMALIZED_BACKEND_PATH) = BACKEND_ENDPOINT

\* The page was loaded with base https://x/ and path chat, and a request to
\* https://x/chat is outstanding.
EndpointWitness ==
  /\ env = Environment(JsString(HttpsX \o <<"/">>), JsString(Chat))
  /\ Len(requests) = 1
  /\ requests[1].url = HttpsX \o <<"/">> \o Chat

\* C19 as stated: whatever path is configured, the normalized path begins
\* with exactly one slash, and every request goes to the one endpoint
\* resolved from the environment the page was loaded under.
NormalizedPathHasOneLeadingSlash ==
  /\ Len(NORMALIZED_BACKEND_PATH) >= 1
  /\ NORMALIZED_BACKEND_PATH[1] = "/"
  /\ Len(NORMALIZED_BACKEND_PATH) >= 2 => NORMALIZED_BACKEND_PATH[2] # "/"
  /\ \A i \in 1..Len(requests) : requests[i].url = BACKEND_ENDPOINT

\* C20 as stated: in every reachable state every assistant message after
\* the welcome message directly follows a user message, and from the second
\* message on the roles alternate user, assistant.
RolesAlternate ==
  /\ messages[1].role = "assistant"
  /\ \A i \in 2..Len(messages) :
       /\ messages[i].role = "assistant" => messages[i - 1].role = "user"
       /\ messages[i].role = IF i % 2 = 0 THEN "user" ELSE "assistant"

\* C21: a submit whose text is empty once trimmed leaves the transcript, the
\* input field, the error slot, the staged files and the loading flag as
\* they were, and issues no request.
BlankSubmitChangesNothing ==
  [][(IsSubmitStep /\ \A i \in 1..Len(last'.text) : last'.text[i] \in {" ", "\t", "\n"})
       => /\ ~last'.accepted
          /\ UNCHANGED <<messages, input, error, attachedFiles, isLoading,
                         requests>>]_vars

\* The form was submitted with a blank and a tab typed, after a submission
\* had failed and with a.png staged: all of it is still there and the
\* controller is idle.
BlankSubmitWitness ==
  /\ last.op = "submit"
  /\ ~last.accepted
  /\ last.text = <<" ", "\t">>
  /\ input = <<" ", "\t">>
  /\ error # EmptyText
  /\ attachedFiles = <<"a.png">>
  /\ LastMessage(messages) = ApologyMessage
  /\ ~isLoading
  /\ requests = << >>

\* C22: in every reachable state the loading flag is set exactly when a
\* request is outstanding, and there is at most one; the flag is raised only
\* by a submit that goes past the guard and lowered only by the settle of
\* the request.
LoadingIffRequestOutstanding ==
  /\ [](isLoading <=> Len(requests) = 1)
  /\ [](Len(requests) <= 1)
  /\ [][(~isLoading /\ isLoading') => (IsSubmitStep /\ last'.accepted)]_vars
  /\ [][(isLoading /\ ~isLoading') => IsSettleStep]_vars

\* A reset during the flight of a request: the flag is still set and the
\* request is still outstanding.
LoadingIffRequestOutstandingWitness ==
  /\ last.op = "newChat"
  /\ isLoading
  /\ Len(requests) = 1

\* C23: handleNewChat leaves the loading flag and the outstanding request as
\* they were; after a reset during the flight of a request every submit is
\* stopped at the guard for as long as the flag is set, and the request
\* goes on to settle.
ResetKeepsPendingSubmission ==
  /\ [][(last'.op = "newChat")
          => (isLoading' = isLoading /\ requests' = requests)]_vars
  /\ [][(isLoading /\ IsSubmitStep)
          => /\ ~last'.accepted
             /\ isLoading'
             /\ UNCHANGED <<messages, requests, input, error>>]_vars
  /\ (last.op = "newChat" /\ isLoading) ~> (last.op = "settle")

\* The request that was pending at the reset has settled: its assistant
\* message follows the welcome message of the fresh transcript and the
\* controller is idle.
ResetKeepsPendingSubmissionWitness ==
  /\ last.op = "settle"
  /\ Len(messages) = 2
  /\ messages[1] = InitialMessages[1]
  /\ messages[2].role = "assistant"
  /\ ~isLoading
  /\ requests = << >>

\* C24: while the loading flag is set the error slot is empty; the slot is
\* filled only by a settle that fails, stays filled only through steps that
\* are neither a settle nor a reset nor an accepted submit, and while it is
\* filled the controller is idle and the transcript ends with the apology
\* of the failed submission.
ErrorOnlyWhileIdleAfterFailure ==
  /\ [](isLoading => error = EmptyText)
  /\ [](error # EmptyText
          => /\ ~isLoading
             /\ requests = << >>
             /\ Len(messages) >= 2
             /\ LastMessage(messages) = ApologyMessage)
  /\ [][(error' # EmptyText)
          => \/ IsSettleStep /\ ~IsSuccess(last'.outcome)
             \/ /\ error' = error
                /\ ~IsSettleStep
                /\ last'.op # "newChat"
                /\ ~(IsSubmitStep /\ last'.accepted)]_vars

\* A 2xx response with an unparsable body has settled and the user has then
\* typed: the controller is idle and the error of that submission shows.
ErrorOnlyWhileIdleWitness ==
  /\ last.op = "input"
  /\ error = JSON_SYNTAX_MESSAGE
  /\ ~isLoading
  /\ LastMessage(messages) = ApologyMessage

\* C25 as stated: in every reachable state the content of every message of
\* the transcript is a text string, whatever JSON body a 2xx response has.
EveryContentIsText ==
  \A i \in 1..Len(messages) : messages[i].content.kind = "string"

\* C26: when a 2xx response has a body that is not JSON, or is the JSON
\* value null, the settle step appends the apology, fills the error slot,
\* keeps the staged files and lowers the loading flag.
UnusableBodyTakesErrorPath ==
  [][(/\ IsSettleStep
      /\ last'.outcome.kind = "response"
      /\ last'.outcome.ok
      /\ (~last'.outcome.jsonValid \/ last'.outcome.json.kind = "null"))
       => /\ messages' = Append(messages, ApologyMessage)
          /\ error' # EmptyText
          /\ attachedFiles' = attachedFiles
          /\ ~isLoading']_vars

\* A 200 response with the body null has settled while a.png was staged:
\* the apology is the last message, the error slot holds the message of the
\* TypeError, a.png is still staged and the controller is idle.
UnusableBodyWitness ==
  /\ last.op = "settle"
  /\ last.outcome = JsonResponse(JsNull)
  /\ LastMessage(messages) = ApologyMessage
  /\ error = NULL_PROPERTY_MESSAGE
  /\ attachedFiles = <<"a.png">>
  /\ ~isLoading

\* C27: when both pages receive the same typing, form submits, suggestion
\* clicks and network outcomes, and no file is staged and no chat created,
\* they agree after every step on the transcript, the input field, the
\* error slot, the loading flag and the highlighted suggestion, and the
\* requests they have issued are the same.
ControllersAgree ==
  /\ plain.messages = messages
  /\ plain.input = input
  /\ plain.error = error
  /\ plain.isLoading = isLoading
  /\ plain.highlightedSuggestion = highlightedSuggestion
  /\ plain.requests = requests
  /\ attachedFiles = << >>

\* Both pages were sent " Hello\n" through the form and got a 500 with the
\* body "server exploded": both show the user message, the apology and that
\* error.
ControllersAgreeWitness ==
  /\ last.op = "settle"
  /\ last.outcome = HttpErrorResponse(ServerExploded)
  /\ last.request.prompt = Hello
  /\ Len(plain.messages) = 3
  /\ plain.messages[2] = UserMessage(Hello)
  /\ plain.messages[3] = ApologyMessage
  /\ plain.error = ServerExploded
  /\ messages = plain.messages
  /\ error = ServerExploded

====
